---- MODULE Spec2Model ----
(***************************************************************************)
(* VisibilityReport (pkgcore_checks/visibility.py): the per-package        *)
(* visibility scan.  feed(pkg, reporter) runs the VCS visibility check,    *)
(* the existence pass over the three dependency attributes, and then       *)
(* process_depset for every (evaluated depset, profiles) pair of every     *)
(* attribute.  The scan-wide state is query_cache, global_insoluable and   *)
(* each profile's cache / insoluable sets.                                 *)
(***************************************************************************)
EXTENDS Integers, Sequences, FiniteSets, TLC

\* Number of packages the package stream feeds in one scan.
MaxFeeds == 2

Range(s) == {s[i] : i \in 1..Len(s)}

(***************************************************************************)
(* Atoms.  An atom carries the blocks flag and its category; str(node) is  *)
(* the canonical signature ("!" prefix for a blocker, category/package).   *)
(***************************************************************************)
Atom(b, c, p) == [blocks |-> b, category |-> c, package |-> p]

qux  == Atom(FALSE, "dev-baz", "qux")
none == Atom(FALSE, "dev-baz", "none")
blk  == Atom(TRUE,  "dev-baz", "old")
vx   == Atom(FALSE, "virtual", "x")
vy   == Atom(FALSE, "virtual", "y")

Atoms == {qux, none, blk, vx, vy}

\* h = str(node)
Str(a) == <<IF a.blocks THEN "!" ELSE "", a.category, a.package>>

(***************************************************************************)
(* The repository index behind options.search_repo.itermatch(node): the    *)
(* package versions of the repository, matched on category and package     *)
(* (profile masks play no part, and neither does the blocks flag).         *)
(***************************************************************************)
Cpv(c, p, v) == [category |-> c, package |-> p, version |-> v]

search_repo ==
    << Cpv("dev-baz", "qux", "1.0"), Cpv("dev-baz", "qux", "2.0"),
       Cpv("virtual", "y", "0"),
       Cpv("dev-foo", "bar", "1.0"), Cpv("dev-foo", "live", "9999"),
       Cpv("dev-foo", "multi", "9999") >>

itermatch(node) ==
    SelectSeq(search_repo,
              LAMBDA p : p.category = node.category /\ p.package = node.package)

(***************************************************************************)
(* Profiles.  key is the arch marker ("", "~" or "-" followed by the       *)
(* arch); visible, provides_repo.match and virtuals.match are the          *)
(* profile's predicates, constant over a scan.                             *)
(***************************************************************************)
Key(m, a) == [marker |-> m, arch |-> a]

ProfileIds == {"p1", "p2", "p3", "p4"}

Profiles ==
    [p \in ProfileIds |->
        CASE p = "p1" -> [key |-> Key("", "x86"), name |-> "default/x86",
                          visible |-> {Cpv("dev-foo", "live", "9999"),
                                       Cpv("dev-foo", "bar", "1.0")},
                          provided |-> {},
                          virtuals |-> {vx}]
          [] p = "p2" -> [key |-> Key("~", "x86"), name |-> "default/x86",
                          visible |-> {Cpv("dev-baz", "qux", "2.0"),
                                       Cpv("virtual", "y", "0"),
                                       Cpv("dev-foo", "live", "9999"),
                                       Cpv("dev-foo", "multi", "9999")},
                          provided |-> {},
                          virtuals |-> {}]
          [] p = "p3" -> [key |-> Key("", "amd64"), name |-> "default/amd64",
                          visible |-> {Cpv("dev-baz", "qux", "1.0"),
                                       Cpv("dev-foo", "multi", "9999")},
                          provided |-> {none, vx},
                          virtuals |-> {}]
          [] p = "p4" -> [key |-> Key("-", "ppc"), name |-> "default/ppc",
                          visible |-> {Cpv("dev-foo", "live", "9999"),
                                       Cpv("dev-foo", "multi", "9999")},
                          provided |-> {},
                          virtuals |-> {}]]

visible(p, pkgv) == pkgv \in Profiles[p].visible
provided(p, a)   == a \in Profiles[p].provided
is_virtual(p, a) == a \in Profiles[p].virtuals

\* self.profiles.profile_filters: key -> the profiles of that key, as
\* (key, profile) items in iteration order.
profile_filters ==
    << <<Key("", "x86"), "p1">>, <<Key("~", "x86"), "p2">>,
       <<Key("", "amd64"), "p3">>, <<Key("-", "ppc"), "p4">> >>

\* key.startswith(c)
startswith(key, c) == key.marker = c

\* arch.lstrip("~")
lstrip(key) == IF key.marker = "~" THEN Key("", key.arch) ELSE key

(***************************************************************************)
(* Report records (the Result classes).  _store_cpv keeps the package's    *)
(* category, package and version; atoms are stored by their str().         *)
(***************************************************************************)
\* VisibleVcsPkg.__init__(pkg, arch, profile)
VisibleVcsPkg(pkgv, arch, profile) ==
    [kind |-> "VisibleVcsPkg", pkg |-> pkgv, arch |-> lstrip(arch),
     profile |-> profile]

\* NonExistantDeps.__init__(pkg, attr, nonexistant_atoms)
NonExistantDeps(pkgv, attr, nonexistant_atoms) ==
    [kind |-> "NonExistantDeps", pkg |-> pkgv, attr |-> attr,
     atoms |-> {Str(x) : x \in nonexistant_atoms}]

\* stable_unique(iterable): the elements in order of first occurrence
RECURSIVE stable_unique(_)
stable_unique(seq) ==
    IF seq = <<>> THEN <<>>
    ELSE stable_unique(SubSeq(seq, 1, Len(seq) - 1))
            \o (IF \E i \in 1..(Len(seq) - 1) : seq[i] = seq[Len(seq)]
                THEN <<>> ELSE << seq[Len(seq)] >>)

\* NonsolvableDeps.__init__(pkg, attr, keyword, profile, horked):
\* potentials = tuple(str(x) for x in stable_unique(horked))
NonsolvableDeps(pkgv, attr, keyword, profile, horked) ==
    [kind |-> "NonsolvableDeps", pkg |-> pkgv, attr |-> attr,
     keyword |-> keyword, profile |-> profile,
     potentials |-> [i \in 1..Len(stable_unique(horked)) |->
                        Str(stable_unique(horked)[i])]]

(***************************************************************************)
(* Packages fed to the check.  A dependency attribute is given by the      *)
(* leaf atoms of the raw expression (iflatten_instance(depset, atom)) and  *)
(* by what depset_cache.collapse_evaluate_depset returns for it: a         *)
(* sequence of (evaluated depset, profiles) pairs, the evaluated depset    *)
(* as its cnf_solutions().                                                 *)
(***************************************************************************)
Pair(cs, ps) == [clauses |-> cs, profiles |-> ps]
DepSet(raw, pairs) == [raw |-> raw, pairs |-> pairs]

EmptyDep == DepSet(<<>>, <<>>)
\* "dev-baz/none": nothing in the repository matches
DepA == DepSet(<<none>>, << Pair(<< <<none>> >>, <<"p1", "p3">>) >>)
\* "dev-baz/qux": masked under p1, visible under p2
DepB == DepSet(<<qux>>, << Pair(<< <<qux>> >>, <<"p1", "p2">>) >>)
\* "|| ( dev-baz/none !dev-baz/old ) || ( dev-baz/none dev-baz/qux )"
DepD == DepSet(<<none, blk, none, qux>>,
               << Pair(<< <<none, blk>>, <<none, qux>> >>, <<"p1", "p2">>) >>)
\* "virtual/x virtual/y"
DepV == DepSet(<<vx, vy>>, << Pair(<< <<vx>>, <<vy>> >>, <<"p2", "p3">>) >>)
\* "dev-baz/qux flag? ( virtual/x )": two evaluations, p1 listed with both
DepC == DepSet(<<qux, vx>>,
               << Pair(<< <<qux>> >>, <<"p1", "p3">>),
                  Pair(<< <<qux>>, <<vx>> >>, <<"p1">>) >>)

DepSets == {EmptyDep, DepA, DepB, DepD, DepV, DepC}
PostDepSets == {EmptyDep, DepA}

Identities ==
    { [cpv |-> Cpv("dev-foo", "bar", "1.0"), eclasses |-> <<"eutils">>],
      [cpv |-> Cpv("dev-foo", "live", "9999"), eclasses |-> <<"eutils", "git">>],
      [cpv |-> Cpv("dev-foo", "multi", "9999"),
       eclasses |-> <<"git", "subversion">>] }

Packages ==
    { [cpv |-> i.cpv, eclasses |-> i.eclasses,
       depends |-> d, rdepends |-> r, post_rdepends |-> pd] :
         i \in Identities, d \in DepSets, r \in DepSets, pd \in PostDepSets }

NoPkg ==
    [cpv |-> Cpv("", "", ""), eclasses |-> <<>>,
     depends |-> EmptyDep, rdepends |-> EmptyDep, post_rdepends |-> EmptyDep]

\* (("depends", pkg.depends), ("rdepends", pkg.rdepends),
\*  ("post_rdepends", pkg.post_rdepends))
AttrNames == <<"depends", "rdepends", "post_rdepends">>
AttrDepset(p, attr) ==
    CASE attr = "depends" -> p.depends
      [] attr = "rdepends" -> p.rdepends
      [] attr = "post_rdepends" -> p.post_rdepends

(***************************************************************************)
(* State.                                                                  *)
(***************************************************************************)
VARIABLES
    query_cache,        \* self.query_cache: str(atom) -> matches
    global_insoluable,  \* self.profiles.global_insoluable
    cache,              \* profile.cache, per profile
    insoluable,         \* profile.insoluable, per profile
    reports,            \* what feed has handed to reporter.add_report, in order,
                        \* for the package being fed (or fed last)
    pkg,                \* the package being fed (or fed last)
    tasks,              \* Tasks(pkg): the (attribute, pair, profile) iterations
                        \* of feed's second loop, in loop order
    fed,                \* packages the scan has completed
    pc,                 \* where feed stands
    ai,                 \* existence pass: index of the attribute in hand
    ti,                 \* solvability pass: index into Tasks(pkg)
    ci,                 \* index of the clause (required) in csolutions
    ni,                 \* index of the atom (a) in required
    failures,           \* process_depset's failures set of the profile in hand
    searches            \* calls of search_repo.itermatch so far, per str(atom)

vars == <<query_cache, global_insoluable, cache, insoluable, reports, pkg,
          tasks, fed, pc, ai, ti, ci, ni, failures, searches>>

(***************************************************************************)
(* VCS visibility check.                                                   *)
(***************************************************************************)
vcs_eclasses == {"subversion", "git", "cvs", "darcs"}

\* (mutation of VcsCalls: the loop does not break after the first hit)
VcsCallsNoBreak(p) ==
    Cardinality({i \in 1..Len(p.eclasses) : p.eclasses[i] \in vcs_eclasses})

\* feed, "for eclass in pkg.data[_eclasses_]": how many times
\* check_visibility_vcs is called (the loop breaks after the first hit).
VcsCalls(p) ==
    IF \E i \in 1..Len(p.eclasses) : p.eclasses[i] \in vcs_eclasses
    THEN 1 ELSE 0

\* check_visibility_vcs: "if key.startswith(~) or key.startswith(-): continue"
SkipsKey(key) == startswith(key, "~") \/ startswith(key, "-")

\* check_visibility_vcs(pkg, reporter), from item i of profile_filters on:
\* the reports it adds, in order.
RECURSIVE check_visibility_vcs(_, _)
check_visibility_vcs(pkgv, i) ==
    IF i > Len(profile_filters) THEN <<>>
    ELSE LET key == profile_filters[i][1]
             profile == profile_filters[i][2]
             here == IF SkipsKey(key) THEN <<>>
                     ELSE IF visible(profile, pkgv)
                          THEN << VisibleVcsPkg(pkgv, Profiles[profile].key,
                                                Profiles[profile].name) >>
                          ELSE <<>>
         IN  here \o check_visibility_vcs(pkgv, i + 1)

RECURSIVE Repeat(_, _)
Repeat(s, n) == IF n = 0 THEN <<>> ELSE s \o Repeat(s, n - 1)

(***************************************************************************)
(* Existence pass.                                                         *)
(***************************************************************************)
\* (mutation of ExistNode: an unmatched atom is not added to nonexistant)
ExistNodeNoRecord(node, st) ==
    LET h == Str(node) IN
    IF h \notin DOMAIN st.qc
    THEN IF h \in st.gi
         THEN [st EXCEPT !.nonexistant = @ \cup {node},
                         !.qc = @ @@ (h :> <<>>)]
         ELSE LET matches == itermatch(node)
                  sr == [st EXCEPT !.searches[h] = @ + 1] IN
              IF matches # <<>>
              THEN [sr EXCEPT !.qc = @ @@ (h :> matches)]
              ELSE IF ~node.blocks /\ ~(node.category = "virtual")
                   THEN [sr EXCEPT !.qc = @ @@ (h :> <<>>),
                                   !.gi = @ \cup {h}]
                   ELSE sr
    ELSE IF st.qc[h] = <<>>
         THEN [st EXCEPT !.nonexistant = @ \cup {node}]
         ELSE st

\* (mutation of ExistNode: "not node.blocks" is not tested)
ExistNodeCountsBlockers(node, st) ==
    LET h == Str(node) IN
    IF h \notin DOMAIN st.qc
    THEN IF h \in st.gi
         THEN [st EXCEPT !.nonexistant = @ \cup {node},
                         !.qc = @ @@ (h :> <<>>)]
         ELSE LET matches == itermatch(node)
                  sr == [st EXCEPT !.searches[h] = @ + 1] IN
              IF matches # <<>>
              THEN [sr EXCEPT !.qc = @ @@ (h :> matches)]
              ELSE IF ~(node.category = "virtual")
                   THEN [sr EXCEPT !.nonexistant = @ \cup {node},
                                   !.qc = @ @@ (h :> <<>>),
                                   !.gi = @ \cup {h}]
                   ELSE sr
    ELSE IF st.qc[h] = <<>>
         THEN [st EXCEPT !.nonexistant = @ \cup {node}]
         ELSE st

\* (mutation of ExistNode: the empty tuple is not stored in query_cache)
ExistNodeNoEmptyEntry(node, st) ==
    LET h == Str(node) IN
    IF h \notin DOMAIN st.qc
    THEN IF h \in st.gi
         THEN [st EXCEPT !.nonexistant = @ \cup {node},
                         !.qc = @ @@ (h :> <<>>)]
         ELSE LET matches == itermatch(node)
                  sr == [st EXCEPT !.searches[h] = @ + 1] IN
              IF matches # <<>>
              THEN [sr EXCEPT !.qc = @ @@ (h :> matches)]
              ELSE IF ~node.blocks /\ ~(node.category = "virtual")
                   THEN [sr EXCEPT !.nonexistant = @ \cup {node},
                                   !.gi = @ \cup {h}]
                   ELSE sr
    ELSE IF st.qc[h] = <<>>
         THEN [st EXCEPT !.nonexistant = @ \cup {node}]
         ELSE st

\* (mutation of ExistNode: global_insoluable.add(h) is missing)
ExistNodeNoGlobalAdd(node, st) ==
    LET h == Str(node) IN
    IF h \notin DOMAIN st.qc
    THEN IF h \in st.gi
         THEN [st EXCEPT !.nonexistant = @ \cup {node},
                         !.qc = @ @@ (h :> <<>>)]
         ELSE LET matches == itermatch(node)
                  sr == [st EXCEPT !.searches[h] = @ + 1] IN
              IF matches # <<>>
              THEN [sr EXCEPT !.qc = @ @@ (h :> matches)]
              ELSE IF ~node.blocks /\ ~(node.category = "virtual")
                   THEN [sr EXCEPT !.nonexistant = @ \cup {node},
                                   !.qc = @ @@ (h :> <<>>)]
                   ELSE sr
    ELSE IF st.qc[h] = <<>>
         THEN [st EXCEPT !.nonexistant = @ \cup {node}]
         ELSE st

\* (mutation of ExistNode: a found match rebinds query_cache to a new dict)
ExistNodeRebinds(node, st) ==
    LET h == Str(node) IN
    IF h \notin DOMAIN st.qc
    THEN IF h \in st.gi
         THEN [st EXCEPT !.nonexistant = @ \cup {node},
                         !.qc = @ @@ (h :> <<>>)]
         ELSE LET matches == itermatch(node)
                  sr == [st EXCEPT !.searches[h] = @ + 1] IN
              IF matches # <<>>
              THEN [sr EXCEPT !.qc = (h :> matches)]
              ELSE IF ~node.blocks /\ ~(node.category = "virtual")
                   THEN [sr EXCEPT !.nonexistant = @ \cup {node},
                                   !.qc = @ @@ (h :> <<>>),
                                   !.gi = @ \cup {h}]
                   ELSE sr
    ELSE IF st.qc[h] = <<>>
         THEN [st EXCEPT !.nonexistant = @ \cup {node}]
         ELSE st

\* (mutation of ExistNode: a found match is not stored in query_cache)
ExistNodeNoMatchEntry(node, st) ==
    LET h == Str(node) IN
    IF h \notin DOMAIN st.qc
    THEN IF h \in st.gi
         THEN [st EXCEPT !.nonexistant = @ \cup {node},
                         !.qc = @ @@ (h :> <<>>)]
         ELSE LET matches == itermatch(node)
                  sr == [st EXCEPT !.searches[h] = @ + 1] IN
              IF matches # <<>>
              THEN sr
              ELSE IF ~node.blocks /\ ~(node.category = "virtual")
                   THEN [sr EXCEPT !.nonexistant = @ \cup {node},
                                   !.qc = @ @@ (h :> <<>>),
                                   !.gi = @ \cup {h}]
                   ELSE sr
    ELSE IF st.qc[h] = <<>>
         THEN [st EXCEPT !.nonexistant = @ \cup {node}]
         ELSE st

\* (mutation of ExistNode: the branch "elif not self.query_cache[h]" is
\* missing, a cached empty result is not reported again)
ExistNodeSilentOnCached(node, st) ==
    LET h == Str(node) IN
    IF h \notin DOMAIN st.qc
    THEN IF h \in st.gi
         THEN [st EXCEPT !.nonexistant = @ \cup {node},
                         !.qc = @ @@ (h :> <<>>)]
         ELSE LET matches == itermatch(node)
                  sr == [st EXCEPT !.searches[h] = @ + 1] IN
              IF matches # <<>>
              THEN [sr EXCEPT !.qc = @ @@ (h :> matches)]
              ELSE IF ~node.blocks /\ ~(node.category = "virtual")
                   THEN [sr EXCEPT !.nonexistant = @ \cup {node},
                                   !.qc = @ @@ (h :> <<>>),
                                   !.gi = @ \cup {h}]
                   ELSE sr
    ELSE st

\* feed, the body of "for node in iflatten_instance(depset, atom)" on one
\* node; st holds query_cache (qc), global_insoluable (gi) and nonexistant.
ExistNode(node, st) ==
    LET h == Str(node) IN
    IF h \notin DOMAIN st.qc
    THEN IF h \in st.gi
         THEN [st EXCEPT !.nonexistant = @ \cup {node},
                         !.qc = @ @@ (h :> <<>>)]
         ELSE LET matches == itermatch(node)
                  sr == [st EXCEPT !.searches[h] = @ + 1] IN
              IF matches # <<>>
              THEN [sr EXCEPT !.qc = @ @@ (h :> matches)]
              ELSE IF ~node.blocks /\ ~(node.category = "virtual")
                   THEN [sr EXCEPT !.nonexistant = @ \cup {node},
                                   !.qc = @ @@ (h :> <<>>),
                                   !.gi = @ \cup {h}]
                   ELSE sr
    ELSE IF st.qc[h] = <<>>
         THEN [st EXCEPT !.nonexistant = @ \cup {node}]
         ELSE st

\* the loop over the leaf atoms of one attribute, from node i on
RECURSIVE ExistNodes(_, _, _)
ExistNodes(nodes, i, st) ==
    IF i > Len(nodes) THEN st
    ELSE ExistNodes(nodes, i + 1, ExistNode(nodes[i], st))

\* "if nonexistant: reporter.add_report(NonExistantDeps(pkg, attr, nonexistant))"
ExistReport(pkgv, attr, nonexistant) ==
    IF nonexistant # {} THEN << NonExistantDeps(pkgv, attr, nonexistant) >>
    ELSE <<>>

(***************************************************************************)
(* Solvability pass.                                                       *)
(***************************************************************************)
RECURSIVE Flatten(_)
Flatten(ss) == IF ss = <<>> THEN <<>> ELSE Head(ss) \o Flatten(Tail(ss))

\* process_depset(pkg, attr, edepset, profiles, reporter): one task per
\* profile of "for profile in profiles"
PairTasks(attr, j, pr) ==
    [i \in 1..Len(pr.profiles) |->
        [attr |-> attr, pair |-> j, profile |-> pr.profiles[i],
         csolutions |-> pr.clauses]]

\* "for edepset, profiles in collapse_evaluate_depset(pkg, attr, depset)"
AttrTasks(p, attr) ==
    LET pairs == AttrDepset(p, attr).pairs IN
    Flatten([j \in 1..Len(pairs) |-> PairTasks(attr, j, pairs[j])])

\* feed's second loop over the three attributes, flattened in loop order
Tasks(p) ==
    Flatten([k \in 1..Len(AttrNames) |-> AttrTasks(p, AttrNames[k])])

\* (mutation of HasBlocker: only the first atom of the clause is tested)
HasBlockerFirstOnly(required) == required[1].blocks

\* "if any(True for a in required if a.blocks): continue"
HasBlocker(required) == \E i \in 1..Len(required) : required[i].blocks

\* (mutation of AtomOutcome: the "elif provided(a): break" branch is missing)
AtomOutcomeNoProvided(p, a, qc, cch, ins) ==
    LET h == Str(a) IN
    IF h \in ins THEN "pass"
    ELSE IF h \in cch THEN "cached"
    ELSE IF is_virtual(p, a) THEN "is_virtual"
    ELSE IF a.category = "virtual" /\ h \notin DOMAIN qc THEN "deferred"
    ELSE IF h \notin DOMAIN qc THEN "KeyError"
    ELSE IF \E c \in Range(qc[h]) : visible(p, c) THEN "visible"
    ELSE "invisible"

\* (mutation of AtomOutcome: the virtual-category branch does not test
\* "h not in self.query_cache")
AtomOutcomeNoDeferral(p, a, qc, cch, ins) ==
    LET h == Str(a) IN
    IF h \in ins THEN "pass"
    ELSE IF h \in cch THEN "cached"
    ELSE IF provided(p, a) THEN "provided"
    ELSE IF is_virtual(p, a) THEN "is_virtual"
    ELSE IF h \notin DOMAIN qc THEN "KeyError"
    ELSE IF \E c \in Range(qc[h]) : visible(p, c) THEN "visible"
    ELSE "invisible"

\* The if/elif chain of process_depset on atom a for profile p: the branch
\* taken, given query_cache (qc), profile.cache (cch), profile.insoluable (ins).
AtomOutcome(p, a, qc, cch, ins) ==
    LET h == Str(a) IN
    IF h \in ins THEN "pass"
    ELSE IF h \in cch THEN "cached"
    ELSE IF provided(p, a) THEN "provided"
    ELSE IF is_virtual(p, a) THEN "is_virtual"
    ELSE IF a.category = "virtual" /\ h \notin DOMAIN qc THEN "deferred"
    ELSE IF h \notin DOMAIN qc THEN "KeyError"
    ELSE IF \E c \in Range(qc[h]) : visible(p, c) THEN "visible"
    ELSE "invisible"

\* (mutation of Breaks: the virtual deferral branch breaks as well)
BreaksOnDeferral(outcome) ==
    outcome \in {"cached", "provided", "is_virtual", "visible", "deferred"}

\* (mutation of CacheAdds: cache.add(h) runs before the visibility test)
CacheAddsUntested(outcome) == outcome \in {"is_virtual", "visible", "invisible"}

\* (mutation of InsoluableAdds: insoluable.add(h) is not under the "else" of
\* the visibility test)
InsoluableAddsUnguarded(outcome) ==
    outcome \in {"deferred", "invisible", "visible"}

\* branches that end the clause with "break"
\* (mutation of CacheAdds: the provides_repo branch adds to profile.cache too)
CacheAddsProvided(outcome) == outcome \in {"provided", "is_virtual", "visible"}

Breaks(outcome) == outcome \in {"cached", "provided", "is_virtual", "visible"}
\* branches that run cache.add(h)
CacheAdds(outcome) == outcome \in {"is_virtual", "visible"}
\* branches that run insoluable.add(h)
InsoluableAdds(outcome) == outcome \in {"deferred", "invisible"}

\* (mutation of SolveReport: one report per failing atom)
SolveReportPerAtom(pkgv, attr, p, horked) ==
    [i \in 1..Len(horked) |->
        NonsolvableDeps(pkgv, attr, Profiles[p].key, Profiles[p].name,
                        << horked[i] >>)]

\* list(failures): a set is iterated in no order the program fixes; the
\* lists the call can return
list(fails) == {l \in [1..Cardinality(fails) -> fails] : Range(l) = fails}

\* "if failures: reporter.add_report(NonsolvableDeps(pkg, attr, profile.key,
\*  profile.name, list(failures)))", horked being what list(failures) gave
SolveReport(pkgv, attr, p, horked) ==
    IF horked # <<>>
    THEN << NonsolvableDeps(pkgv, attr, Profiles[p].key, Profiles[p].name, horked) >>
    ELSE <<>>

\* (mutation of failures_update: failures.add(a), the atom tested last)
failures_add_last(fails, required) == fails \cup {required[Len(required)]}

\* "failures.update(required)"
failures_update(fails, required) == fails \cup Range(required)

CurTask == tasks[ti]
CurClause == CurTask.csolutions[ci]
CurAtom == CurClause[ni]

(***************************************************************************)
(* Initial state: a scan starts with empty caches and nothing fed.         *)
(***************************************************************************)
Init ==
    /\ query_cache = <<>>
    /\ global_insoluable = {}
    /\ cache = [p \in ProfileIds |-> {}]
    /\ insoluable = [p \in ProfileIds |-> {}]
    /\ reports = <<>>
    /\ pkg = NoPkg
    /\ tasks = <<>>
    /\ fed = 0
    /\ pc = "idle"
    /\ ai = 0 /\ ti = 0 /\ ci = 0 /\ ni = 0
    /\ failures = {}
    /\ searches = [h \in { Str(a) : a \in Atoms } |-> 0]

\* where process_depset stands on entering the clauses of a task
EnterPc(task) == IF task.csolutions = <<>> THEN "report" ELSE "clause"
EnterCi(task) == IF task.csolutions = <<>> THEN 0 ELSE 1

\* (mutation of profile_add: one set is shared by all the profiles)
profile_add_shared(sets, p, h) == [q \in DOMAIN sets |-> sets[q] \cup {h}]

\* profile.cache.add(h) / profile.insoluable.add(h): the set of profile p
\* gains h, the sets of the other profiles are other objects
profile_add(sets, p, h) == [sets EXCEPT ![p] = @ \cup {h}]

\* (mutation of add_report: the new records go in front of the earlier ones)
add_report_first(reps, new) == new \o reps

\* reporter.add_report, called in the order feed reaches the calls: the
\* records of one feed in the order they were emitted
add_report(reps, new) == reps \o new

(***************************************************************************)
(* feed(pkg, reporter), entry: the VCS check (the package stream hands     *)
(* over the next package).                                                 *)
(***************************************************************************)
Feed(p) ==
    /\ pc = "idle"
    /\ fed < MaxFeeds
    /\ pkg' = p
    /\ tasks' = Tasks(p)
    /\ reports' = add_report(<<>>, Repeat(check_visibility_vcs(p.cpv, 1),
                                          VcsCalls(p)))
    /\ pc' = "existence"
    /\ ai' = 1
    /\ UNCHANGED <<query_cache, global_insoluable, cache, insoluable, fed,
                   ti, ci, ni, failures, searches>>

(***************************************************************************)
(* feed, first loop: the existence pass over attribute ai; after the       *)
(* third attribute the second loop starts with the first task.             *)
(***************************************************************************)
Existence ==
    /\ pc = "existence"
    /\ LET attr == AttrNames[ai]
           st == ExistNodes(AttrDepset(pkg, attr).raw, 1,
                            [qc |-> query_cache, gi |-> global_insoluable,
                             nonexistant |-> {}, searches |-> searches])
       IN  /\ query_cache' = st.qc
           /\ global_insoluable' = st.gi
           /\ searches' = st.searches
           /\ reports' = add_report(reports,
                                    ExistReport(pkg.cpv, attr, st.nonexistant))
    /\ IF ai < Len(AttrNames)
       THEN /\ ai' = ai + 1
            /\ UNCHANGED <<pc, ti, ci, fed>>
       ELSE /\ ai' = 0
            /\ IF tasks = <<>>
               THEN /\ pc' = "idle"
                    /\ fed' = fed + 1
                    /\ UNCHANGED <<ti, ci>>
               ELSE /\ pc' = EnterPc(tasks[1])
                    /\ ti' = 1
                    /\ ci' = EnterCi(tasks[1])
                    /\ UNCHANGED fed
    /\ UNCHANGED <<cache, insoluable, pkg, tasks, ni, failures>>

(***************************************************************************)
(* process_depset, "for required in csolutions": the blocker test.         *)
(***************************************************************************)
ClauseStep ==
    /\ pc = "clause"
    /\ IF HasBlocker(CurClause)
       THEN IF ci < Len(CurTask.csolutions)
            THEN /\ ci' = ci + 1
                 /\ UNCHANGED <<pc, ni>>
            ELSE /\ pc' = "report"
                 /\ ci' = 0
                 /\ UNCHANGED ni
       ELSE /\ pc' = "atom"
            /\ ni' = 1
            /\ UNCHANGED ci
    /\ UNCHANGED <<query_cache, global_insoluable, cache, insoluable, reports,
                   pkg, tasks, fed, ai, ti, failures, searches>>

(***************************************************************************)
(* process_depset, "for a in required": one atom of the clause, and the    *)
(* loop's else branch (failures.update(required)) after the last atom.     *)
(***************************************************************************)
AtomStep ==
    /\ pc = "atom"
    /\ LET p == CurTask.profile
           h == Str(CurAtom)
           o == AtomOutcome(p, CurAtom, query_cache, cache[p], insoluable[p])
           done == Breaks(o) \/ ni = Len(CurClause)
       IN  /\ cache' = IF CacheAdds(o) THEN profile_add(cache, p, h) ELSE cache
           /\ insoluable' = IF InsoluableAdds(o)
                            THEN profile_add(insoluable, p, h)
                            ELSE insoluable
           /\ IF o = "KeyError"
              THEN \* self.query_cache[h] raises; feed does not return
                   /\ pc' = "error"
                   /\ UNCHANGED <<ci, ni, failures>>
              ELSE /\ failures' = IF Breaks(o) \/ ni < Len(CurClause)
                                  THEN failures
                                  ELSE failures_update(failures, CurClause)
                   /\ ni' = IF done THEN 0 ELSE ni + 1
                   /\ pc' = IF ~done THEN "atom"
                            ELSE IF ci < Len(CurTask.csolutions) THEN "clause"
                            ELSE "report"
                   /\ ci' = IF ~done THEN ci
                            ELSE IF ci < Len(CurTask.csolutions) THEN ci + 1
                            ELSE 0
    /\ UNCHANGED <<query_cache, global_insoluable, reports, pkg, tasks, fed,
                   ai, ti, searches>>

(***************************************************************************)
(* process_depset, after the clauses of a profile: the report; then the    *)
(* next profile (failures = set()), the next pair, the next attribute, or  *)
(* the end of feed.                                                        *)
(***************************************************************************)
Report ==
    /\ pc = "report"
    /\ \E horked \in list(failures) :
          reports' = add_report(reports,
                                SolveReport(pkg.cpv, CurTask.attr,
                                            CurTask.profile, horked))
    /\ failures' = {}
    /\ IF ti < Len(tasks)
       THEN /\ ti' = ti + 1
            /\ pc' = EnterPc(tasks[ti + 1])
            /\ ci' = EnterCi(tasks[ti + 1])
            /\ UNCHANGED fed
       ELSE /\ ti' = 0
            /\ ci' = 0
            /\ pc' = "idle"
            /\ fed' = fed + 1
    /\ UNCHANGED <<query_cache, global_insoluable, cache, insoluable, pkg,
                   tasks, ai, ni, searches>>

Next ==
    \/ \E p \in Packages : Feed(p)
    \/ Existence
    \/ ClauseStep
    \/ AtomStep
    \/ Report

Spec == Init /\ [][Next]_vars

(***************************************************************************)
(* Properties.  The reference definitions below evaluate the index and     *)
(* the profile predicates directly, without any cache.                     *)
(***************************************************************************)
\* the records of the feed with the tuple of a NonsolvableDeps record read
\* as the set of atoms it names
Emitted ==
    [i \in 1..Len(reports) |->
        IF reports[i].kind = "NonsolvableDeps"
        THEN [reports[i] EXCEPT !.potentials = Range(@)]
        ELSE reports[i]]

OfKind(k) == SelectSeq(Emitted, LAMBDA r : r.kind = k)
Count(s, x) == Cardinality({i \in 1..Len(s) : s[i] = x})

\* a package has been handed to feed
Fed == pc # "idle" \/ fed > 0

\* atom a resolves under profile p
Resolvable(p, a) ==
    \/ provided(p, a)
    \/ is_virtual(p, a)
    \/ \E c \in Range(itermatch(a)) : visible(p, c)

Blocking(required) == \E a \in Range(required) : a.blocks

\* the atoms of the clauses of cs that hold no blocker and no atom
\* resolvable under p
UnsatAtoms(p, cs) ==
    UNION { Range(cs[i]) : i \in { j \in 1..Len(cs) :
                ~Blocking(cs[j]) /\ \A a \in Range(cs[j]) : ~Resolvable(p, a) } }

SolveRecord(attr, p, atoms) ==
    [kind |-> "NonsolvableDeps", pkg |-> pkg.cpv, attr |-> attr,
     keyword |-> Profiles[p].key, profile |-> Profiles[p].name,
     potentials |-> {Str(a) : a \in atoms}]

ExpectedSolve(t) ==
    IF UnsatAtoms(t.profile, t.csolutions) = {} THEN <<>>
    ELSE << SolveRecord(t.attr, t.profile, UnsatAtoms(t.profile, t.csolutions)) >>

\* tasks whose report step has run
DoneTasks ==
    IF pc \in {"clause", "atom", "report", "error"} THEN ti - 1
    ELSE IF pc = "idle" THEN Len(tasks)
    ELSE 0

\* tasks of attribute attr and profile p whose report step has run
DoneFor(attr, p) ==
    {t \in 1..DoneTasks : tasks[t].attr = attr /\ tasks[t].profile = p}

\* C1: for every package, attribute, evaluated depset and applicable
\* profile P, in any reachable cache state, feed emits
\* NonsolvableDeps(pkg, attr, P.key, P.name, atoms) if and only if some
\* clause without a blocking atom has no atom that is provided, matched by
\* virtuals.match or has a repo-wide candidate visible under P, and the
\* reported atoms are exactly the union of the atoms of those clauses: the
\* NonsolvableDeps records emitted so far are, in loop order, the records
\* the cache-free evaluation gives for the (attribute, pair, profile)
\* iterations completed so far.
C1_NonsolvableIffUnsatisfied ==
    OfKind("NonsolvableDeps") = Flatten([t \in 1..DoneTasks |-> ExpectedSolve(tasks[t])])

\* Scenario B, twice in one package, so that rdepends is judged from the
\* profiles' sets: dev-baz/qux is reported for p1 (masked) and not for p2
\* (visible).
C1_Witness ==
    /\ pc = "idle" /\ fed = 2
    /\ pkg.depends = DepB /\ pkg.rdepends = DepB
    /\ Count(Emitted, SolveRecord("depends", "p1", {qux})) = 1
    /\ Count(Emitted, SolveRecord("rdepends", "p1", {qux})) = 1
    /\ \A i \in 1..Len(reports) :
          reports[i].kind = "NonsolvableDeps"
             => reports[i].keyword # Profiles["p2"].key

\* attributes whose raw expression is one non-blocking, non-virtual atom
\* that matches nothing in the repository
SingleMissing(attr) ==
    LET raw == AttrDepset(pkg, attr).raw IN
    /\ Len(raw) = 1
    /\ ~raw[1].blocks /\ raw[1].category # "virtual"
    /\ itermatch(raw[1]) = <<>>

ExistRecords(attr) ==
    SelectSeq(reports, LAMBDA r : r.kind = "NonExistantDeps" /\ r.attr = attr)
SolveRecords(attr) ==
    SelectSeq(Emitted, LAMBDA r : r.kind = "NonsolvableDeps" /\ r.attr = attr)

\* C2 (as claimed): when an attribute is a single non-blocking, non-virtual
\* atom matching no package, a completed feed has emitted exactly one
\* NonExistentDeps for the attribute and no NonsolvableDeps for it under
\* any profile.
C2_ExistencePrefilters ==
    (pc = "idle" /\ fed > 0) =>
        \A k \in 1..Len(AttrNames) :
            SingleMissing(AttrNames[k]) =>
                /\ Len(ExistRecords(AttrNames[k])) = 1
                /\ SolveRecords(AttrNames[k]) = <<>>

\* C2 (amended): for such an attribute a completed feed has emitted exactly
\* one NonExistentDeps, naming the atom, and the solvability pass is not
\* filtered by it: for every profile the attribute is evaluated for, the
\* feed has emitted one NonsolvableDeps naming the atom per evaluation,
\* unless the profile's provided or virtuals.match holds for the atom, and
\* then none.
C2_ExistenceDoesNotPrefilter ==
    (pc = "idle" /\ fed > 0) =>
        \A k \in 1..Len(AttrNames) :
            LET attr == AttrNames[k]
                a == AttrDepset(pkg, attr).raw[1]
            IN  SingleMissing(attr) =>
                  /\ ExistRecords(attr) =
                        << [kind |-> "NonExistantDeps", pkg |-> pkg.cpv,
                            attr |-> attr, atoms |-> {Str(a)}] >>
                  /\ \A p \in ProfileIds :
                        (\A t \in DoneFor(attr, p) : tasks[t].csolutions = << <<a>> >>)
                        => Count(SolveRecords(attr), SolveRecord(attr, p, {a})) =
                              IF provided(p, a) \/ is_virtual(p, a) THEN 0
                              ELSE Cardinality(DoneFor(attr, p))

\* Scenario A: rdepends = "dev-baz/none"; NonExistentDeps and, under p1,
\* NonsolvableDeps are both emitted; p3 provides the atom and gets none.
C2_Witness ==
    /\ pc = "idle" /\ fed > 0
    /\ pkg.rdepends = DepA
    /\ Len(ExistRecords("rdepends")) = 1
    /\ SolveRecords("rdepends") = << SolveRecord("rdepends", "p1", {none}) >>

\* attributes whose existence pass has run
DoneAttrs == IF pc = "existence" THEN ai - 1 ELSE Len(AttrNames)

ExistRecord(attr, atoms) ==
    IF atoms = {} THEN <<>>
    ELSE << [kind |-> "NonExistantDeps", pkg |-> pkg.cpv, attr |-> attr,
             atoms |-> {Str(a) : a \in atoms}] >>

\* leaf atoms of the raw expression with an empty repo-wide result
Unmatched(attr) ==
    {a \in Range(AttrDepset(pkg, attr).raw) : itermatch(a) = <<>>}

\* C3 (as claimed): for each attribute, the unresolved set is exactly the
\* set of leaf atoms of the raw expression whose repo-wide lookup result is
\* empty, and NonExistentDeps(pkg, attr, unresolved) is emitted exactly
\* once when that set is non-empty and not at all when it is empty.
C3_UnresolvedIsUnmatched ==
    OfKind("NonExistantDeps") =
        Flatten([k \in 1..DoneAttrs |->
                    ExistRecord(AttrNames[k], Unmatched(AttrNames[k]))])

\* C3 (amended): the unresolved set is exactly the set of non-blocking,
\* non-virtual-category leaf atoms of the raw expression whose repo-wide
\* lookup result is empty (a blocker or a virtual-category atom that
\* matches nothing is not marked), and NonExistentDeps is emitted exactly
\* once when that set is non-empty and not at all when it is empty.
C3_UnresolvedIsUnmatchedPlain ==
    OfKind("NonExistantDeps") =
        Flatten([k \in 1..DoneAttrs |->
                    ExistRecord(AttrNames[k],
                        {a \in Unmatched(AttrNames[k]) :
                            ~a.blocks /\ a.category # "virtual"})])

\* depends holds dev-baz/none and the unmatched blocker !dev-baz/old, in a
\* scan whose caches already know dev-baz/none: only dev-baz/none is named.
C3_Witness ==
    /\ pc = "existence" /\ ai = 2 /\ fed = 1
    /\ Str(none) \in insoluable["p1"]
    /\ pkg.depends = DepD
    /\ OfKind("NonExistantDeps") = ExistRecord("depends", {none})

\* C4 (as claimed): for every attribute and profile a single feed emits at
\* most one NonsolvableDeps, whatever pairs the depset evaluator returns.
C4_OnePerAttrProfile ==
    \A k \in 1..Len(AttrNames) : \A p \in ProfileIds :
        Cardinality({i \in 1..Len(reports) :
            /\ reports[i].kind = "NonsolvableDeps"
            /\ reports[i].attr = AttrNames[k]
            /\ reports[i].keyword = Profiles[p].key
            /\ reports[i].profile = Profiles[p].name}) <= 1

\* C4 (amended): a single feed emits at most one NonsolvableDeps per
\* attribute, evaluated depset and profile: failures are accumulated over
\* the clauses of one evaluated depset and reported per evaluated depset,
\* so there is at most one per (attribute, profile) when the profile sets
\* of the attribute's pairs are disjoint.
C4_OnePerEvaluatedDepset ==
    \A k \in 1..Len(AttrNames) : \A p \in ProfileIds :
        Cardinality({i \in 1..Len(reports) :
            /\ reports[i].kind = "NonsolvableDeps"
            /\ reports[i].attr = AttrNames[k]
            /\ reports[i].keyword = Profiles[p].key
            /\ reports[i].profile = Profiles[p].name})
          <= Cardinality(DoneFor(AttrNames[k], p))

\* both clauses of DepD failed for p1 (two clauses, two atoms): one record
C4_Witness ==
    /\ pc = "idle" /\ fed > 0
    /\ pkg.depends = DepD
    /\ SolveRecords("depends") = << SolveRecord("depends", "p1", {none, qux}) >>

\* C5: blocking exemption.  In every reachable cache state and for every
\* profile, a clause that contains at least one blocking atom is judged
\* satisfied and contributes none of its atoms to the profile's failure
\* set: the step that takes up such a clause moves on to the next clause
\* (or to the report) and changes neither failures nor the profile's sets
\* nor the reports.
C5_BlockingExemption ==
    [][ (pc = "clause" /\ Blocking(CurClause)) =>
            /\ failures' = failures
            /\ cache' = cache /\ insoluable' = insoluable
            /\ reports' = reports
            /\ pc' \in {"clause", "report"}
            /\ (pc' = "clause" => ci' = ci + 1) ]_vars

\* Scenario D: [dev-baz/none, !dev-baz/old] has been passed over for a
\* profile whose insoluble set already holds dev-baz/none.
C5_Witness ==
    /\ pc = "clause" /\ ci = 2
    /\ Blocking(CurTask.csolutions[1])
    /\ none \in Range(CurTask.csolutions[1])
    /\ Str(none) \in insoluable[CurTask.profile]
    /\ failures = {}

\* clauses made only of virtual-category atoms absent from query_cache
Deferred(required) ==
    \A a \in Range(required) :
        a.category = "virtual" /\ Str(a) \notin DOMAIN query_cache

\* C6 (as claimed): virtual deferral.  A clause whose only members are
\* virtual-category atoms absent from the existence cache is judged
\* unsatisfied for every profile it is checked against, whatever the
\* profile's provided and virtuals.match answer: once the clauses of a
\* profile are done, the atoms of every such clause are in failures.
C6_VirtualDeferral ==
    pc = "report" =>
        \A i \in 1..Len(CurTask.csolutions) :
            Deferred(CurTask.csolutions[i])
                => Range(CurTask.csolutions[i]) \subseteq failures

\* C6 (amended): a clause whose only members are non-blocking
\* virtual-category atoms absent from the existence cache is judged
\* unsatisfied for every profile under which none of its atoms is provided
\* or matched by virtuals.match (those two tests come first).
C6_VirtualDeferralAfterProfileTests ==
    pc = "report" =>
        \A i \in 1..Len(CurTask.csolutions) :
            LET required == CurTask.csolutions[i] IN
            ( /\ Deferred(required)
              /\ ~Blocking(required)
              /\ \A a \in Range(required) :
                    ~provided(CurTask.profile, a) /\ ~is_virtual(CurTask.profile, a) )
                => Range(required) \subseteq failures

\* [virtual/x] has failed for a profile that neither provides nor maps it
C6_Witness ==
    /\ pc = "report"
    /\ \E i \in 1..Len(CurTask.csolutions) :
          /\ Deferred(CurTask.csolutions[i])
          /\ CurTask.csolutions[i] = <<vx>>
    /\ ~provided(CurTask.profile, vx) /\ ~is_virtual(CurTask.profile, vx)
    /\ vx \in failures

\* the profiles check_visibility_vcs reports the package for
VcsProfiles ==
    {p \in ProfileIds :
        /\ Range(pkg.eclasses) \cap {"subversion", "git", "cvs", "darcs"} # {}
        /\ Profiles[p].key.marker \notin {"~", "-"}
        /\ pkg.cpv \in Profiles[p].visible}

\* C7: for every package fed, VisibleVcsPkg(pkg, P.key, P.name) is emitted
\* exactly once for each profile P whose key has no leading "~" or "-" and
\* for which P.visible(pkg) holds, if and only if the package's eclasses
\* intersect {subversion, git, cvs, darcs}; there is no other VisibleVcsPkg
\* record (none for a "~" or "-" key, none for a non-VCS package, none
\* twice).
C7_VisibleVcsPkg ==
    Fed =>
        /\ \A p \in VcsProfiles :
              Count(reports, [kind |-> "VisibleVcsPkg", pkg |-> pkg.cpv,
                              arch |-> Profiles[p].key,
                              profile |-> Profiles[p].name]) = 1
        /\ Len(OfKind("VisibleVcsPkg")) = Cardinality(VcsProfiles)

\* dev-foo/multi-9999 inherits git and subversion and is visible under the
\* stable amd64 profile, the unstable ~x86 one and the masked -ppc one
C7_Witness ==
    /\ Fed
    /\ pkg.eclasses = <<"git", "subversion">>
    /\ VcsProfiles = {"p3"}
    /\ visible("p2", pkg.cpv) /\ visible("p4", pkg.cpv)
    /\ Len(OfKind("VisibleVcsPkg")) = 1

\* C8: for every profile, after any sequence of feeds and at every step of
\* process_depset, profile.cache and profile.insoluable are disjoint.
C8_CacheInsoluableDisjoint ==
    \A p \in ProfileIds : cache[p] \cap insoluable[p] = {}

C8_Witness ==
    /\ pc = "atom"
    /\ \E p \in ProfileIds : Cardinality(cache[p]) >= 2 /\ Cardinality(insoluable[p]) >= 2

\* C9: cache soundness, forward direction.  Every signature in
\* global_insoluable has a query_cache entry, and that entry is empty.
C9_GlobalInsoluableIsEmptyEntry ==
    \A h \in global_insoluable :
        h \in DOMAIN query_cache /\ query_cache[h] = <<>>

C9_Witness ==
    /\ Str(none) \in global_insoluable
    /\ Str(qux) \in DOMAIN query_cache
    /\ pc = "existence"

\* C10: cache soundness, converse direction.  After every completed feed
\* (and in every state between), every signature whose query_cache entry is
\* empty is in global_insoluable: the two are written in the same step.
C10_EmptyEntryIsGlobalInsoluable ==
    \A h \in DOMAIN query_cache :
        query_cache[h] = <<>> => h \in global_insoluable

C10_Witness ==
    /\ pc = "idle" /\ fed = MaxFeeds
    /\ \E h \in DOMAIN query_cache : query_cache[h] = <<>>
    /\ \E h \in DOMAIN query_cache : query_cache[h] # <<>>


\* every clause the depset evaluator hands out
AllClauses ==
    UNION { UNION { Range(d.pairs[j].clauses) : j \in 1..Len(d.pairs) } :
            d \in DepSets \cup PostDepSets }

\* the standing proof a satisfied clause leaves for profile p, with cch the
\* profile's solvable set: a blocker, an atom the profile provides, or a
\* signature in the solvable set
Standing(cch, p, required) ==
    \/ Blocking(required)
    \/ \E a \in Range(required) : provided(p, a) \/ Str(a) \in cch

\* the step in hand ends the clause in hand without failures.update(required)
JudgedSatisfied(fails, nextpc) ==
    /\ pc = "atom"
    /\ nextpc \in {"clause", "report"}
    /\ ~(Range(CurClause) \subseteq fails)

\* C11: clause monotonicity.  Within one scan, once a clause has been
\* judged satisfied for profile P, every later evaluation of it for P judges
\* it satisfied again: the judgement leaves a standing proof, the proof is
\* never lost, and a clause with a standing proof never reaches
\* failures.update.  A signature in P's solvable set is never removed,
\* never put in P's insoluble set, and an atom found there ends the clause
\* at once without touching either set (no visibility test is made again).
C11_ClauseMonotonicity ==
    [][ /\ \A p \in ProfileIds :
              /\ cache[p] \subseteq cache'[p]
              /\ cache[p] \cap insoluable'[p] = {}
              /\ \A c \in AllClauses :
                    Standing(cache[p], p, c) => Standing(cache'[p], p, c)
        /\ JudgedSatisfied(failures', pc')
              => Standing(cache'[CurTask.profile], CurTask.profile, CurClause)
        /\ (pc = "atom" /\ Standing(cache[CurTask.profile], CurTask.profile, CurClause))
              => failures' = failures /\ pc' # "error"
        /\ (pc = "atom" /\ Str(CurAtom) \in cache[CurTask.profile])
              => /\ pc' \in {"clause", "report"}
                 /\ cache' = cache /\ insoluable' = insoluable ]_vars

\* the second package of the scan meets an atom that is already in the
\* profile's solvable set
C11_Witness ==
    /\ pc = "atom" /\ fed = 1
    /\ Str(CurAtom) \in cache[CurTask.profile]
    /\ CurAtom = qux

(***************************************************************************)
(* C12: every step of feed only grows the caches: the key set of           *)
(* query_cache, global_insoluable and each profile's cache and insoluable  *)
(* after the step contain what they held before it, and an entry of        *)
(* query_cache, once written, keeps its value.                             *)
(***************************************************************************)
C12_CachesOnlyGrow ==
    [][ /\ DOMAIN query_cache \subseteq DOMAIN query_cache'
        /\ \A h \in DOMAIN query_cache : query_cache'[h] = query_cache[h]
        /\ global_insoluable \subseteq global_insoluable'
        /\ \A p \in ProfileIds :
              /\ cache[p] \subseteq cache'[p]
              /\ insoluable[p] \subseteq insoluable'[p] ]_vars

\* a second package is under way with every cache already holding entries,
\* matched and empty ones among those of query_cache
C12_Witness ==
    /\ fed = 1 /\ pc = "atom"
    /\ \E h \in DOMAIN query_cache : query_cache[h] # <<>>
    /\ \E h \in DOMAIN query_cache : query_cache[h] = <<>>
    /\ global_insoluable # {}
    /\ \E p \in ProfileIds : cache[p] # {} /\ insoluable[p] # {}
    /\ Str(CurAtom) \notin cache[CurTask.profile] \cup insoluable[CurTask.profile]

\* the place of a record kind in the order "existence, solvability, VCS"
RankExistenceFirst(k) ==
    IF k = "NonExistantDeps" THEN 1 ELSE IF k = "NonsolvableDeps" THEN 2 ELSE 3

\* the place of a record kind in the order "VCS, existence, solvability"
RankVcsFirst(k) ==
    IF k = "VisibleVcsPkg" THEN 1 ELSE IF k = "NonExistantDeps" THEN 2 ELSE 3

(***************************************************************************)
(* C14 as stated: within one feed every NonExistantDeps record comes       *)
(* before any NonsolvableDeps record, and every NonsolvableDeps record     *)
(* before any VisibleVcsPkg record.  (Violated: the VCS check is the first *)
(* thing feed does.)                                                       *)
(***************************************************************************)
C14_ExistenceSolvabilityVcs ==
    \A i, j \in 1..Len(reports) :
        i < j => RankExistenceFirst(reports[i].kind)
                    <= RankExistenceFirst(reports[j].kind)

(***************************************************************************)
(* C14, amended: within one feed the order is VCS visibility, existence,   *)
(* solvability: every VisibleVcsPkg record comes before any                *)
(* NonExistantDeps record, and every NonExistantDeps record before any     *)
(* NonsolvableDeps record.                                                 *)
(***************************************************************************)
C14_VcsExistenceSolvability ==
    \A i, j \in 1..Len(reports) :
        i < j => RankVcsFirst(reports[i].kind) <= RankVcsFirst(reports[j].kind)

\* one feed has emitted records of all three kinds
C14_Witness ==
    /\ pc = "idle" /\ fed > 0
    /\ \A k \in {"VisibleVcsPkg", "NonExistantDeps", "NonsolvableDeps"} :
          OfKind(k) # <<>>

\* the atoms whose first lookup leaves an entry in query_cache: those with a
\* match, and the unmatched ones that neither block nor are virtual-category
CachedOnLookup(a) ==
    \/ itermatch(a) # <<>>
    \/ ~a.blocks /\ a.category # "virtual"

(***************************************************************************)
(* C15 as stated: the index is searched at most once per atom signature,   *)
(* and a signature that has been searched has its result in query_cache,   *)
(* blocking and virtual-category atoms with no match included.  (Violated: *)
(* those are not cached and are searched again.)                           *)
(***************************************************************************)
C15_SearchedOnce ==
    \A a \in Atoms :
        /\ searches[Str(a)] <= 1
        /\ searches[Str(a)] = 1 => Str(a) \in DOMAIN query_cache

(***************************************************************************)
(* C15, amended: the index is searched at most once for each signature     *)
(* that has a match or that is neither blocking nor virtual-category, and  *)
(* that lookup leaves its result, empty or not, in query_cache; a blocking *)
(* or virtual-category signature with no match gets no entry.              *)
(***************************************************************************)
C15_SearchedOnceIfCached ==
    \A a \in Atoms :
        IF CachedOnLookup(a)
        THEN /\ searches[Str(a)] <= 1
             /\ searches[Str(a)] = 1 <=> Str(a) \in DOMAIN query_cache
        ELSE Str(a) \notin DOMAIN query_cache

\* in the second package: a matched and an unmatched signature met again
\* after their single search, and an unmatched blocker searched again
C15_Witness ==
    /\ fed = 1 /\ pc # "existence" /\ pc # "idle"
    /\ {qux, none} \subseteq Range(pkg.depends.raw)
    /\ searches[Str(qux)] = 1 /\ searches[Str(none)] = 1
    /\ searches[Str(blk)] > 1

\* the branch process_depset takes on the atom in hand
CurOutcome ==
    AtomOutcome(CurTask.profile, CurAtom, query_cache,
                cache[CurTask.profile], insoluable[CurTask.profile])

\* process_depset is about to iterate self.query_cache[h] of the atom in hand
AtCandidates == pc = "atom" /\ CurOutcome \in {"visible", "invisible", "KeyError"}

(***************************************************************************)
(* C16: when process_depset reaches the iteration over the candidates of a *)
(* signature, query_cache has an entry for it: self.query_cache[h] never   *)
(* raises KeyError and feed never stops on it (every clause atom of the    *)
(* packages fed is a leaf of the raw expression of its attribute).         *)
(***************************************************************************)
C16_NoKeyError ==
    /\ pc # "error"
    /\ AtCandidates => Str(CurAtom) \in DOMAIN query_cache

\* the candidate iteration is reached for an unmatched atom, while an
\* unmatched virtual-category atom has been searched and left uncached
C16_Witness ==
    /\ AtCandidates
    /\ CurAtom = none
    /\ searches[Str(vx)] > 0
    /\ Str(vx) \notin DOMAIN query_cache

\* feed is inside process_depset
InProcessDepset == pc \in {"clause", "atom", "report"}

(***************************************************************************)
(* C17: process_depset never searches the index and leaves query_cache and *)
(* global_insoluable as they are; of the per-profile sets it changes only  *)
(* cache and insoluable of the profile being checked.                      *)
(***************************************************************************)
C17_ProcessDepsetFrame ==
    [][ InProcessDepset =>
          /\ searches' = searches
          /\ query_cache' = query_cache
          /\ global_insoluable' = global_insoluable
          /\ \A q \in ProfileIds \ {CurTask.profile} :
                cache'[q] = cache[q] /\ insoluable'[q] = insoluable[q] ]_vars

\* process_depset has added to both sets of the profile in hand signatures
\* that another profile's sets do not hold
C17_Witness ==
    /\ pc = "report"
    /\ query_cache # <<>> /\ global_insoluable # {}
    /\ \E q \in ProfileIds \ {CurTask.profile} :
          /\ cache[CurTask.profile] \ cache[q] # {}
          /\ insoluable[CurTask.profile] \ insoluable[q] # {}

\* some package version matching a is visible under profile p
VisibleCandidate(p, a) == \E c \in Range(itermatch(a)) : visible(p, c)

(***************************************************************************)
(* C18: per-profile cache soundness.  Every signature in a profile's cache *)
(* satisfies virtuals.match or has a candidate visible under the profile   *)
(* (an atom that is only provided is never put there); every signature in  *)
(* a profile's insoluable is not provided, not a virtual of the profile,   *)
(* and has no visible candidate.                                           *)
(***************************************************************************)
C18_ProfileCacheSoundness ==
    \A p \in ProfileIds : \A a \in Atoms :
        /\ Str(a) \in cache[p] => is_virtual(p, a) \/ VisibleCandidate(p, a)
        /\ Str(a) \in insoluable[p] =>
              ~provided(p, a) /\ ~is_virtual(p, a) /\ ~VisibleCandidate(p, a)

\* a profile has passed an atom it only provides, and holds a virtual, a
\* visible and an insoluble signature in its sets; another profile holds a
\* deferred virtual-category signature as insoluble
C18_Witness ==
    /\ pc = "idle" /\ fed = MaxFeeds
    /\ \E p \in ProfileIds : \E a \in Range(pkg.depends.raw) :
          /\ provided(p, a) /\ ~is_virtual(p, a) /\ ~VisibleCandidate(p, a)
          /\ \E t \in Range(tasks) : t.profile = p /\ t.attr = "depends"
          /\ cache[p] # {}
    /\ \E p \in ProfileIds : Str(vx) \in cache[p]
    /\ \E p \in ProfileIds : Str(vx) \in insoluable[p]
    /\ \E p \in ProfileIds : Str(none) \in insoluable[p]

(***************************************************************************)
(* The cache-free reference for one package q, from the repository and the *)
(* profiles alone: no query_cache, no global_insoluable, no per-profile    *)
(* set.                                                                    *)
(***************************************************************************)
RefMissing(q, attr) ==
    {a \in Range(AttrDepset(q, attr).raw) :
        itermatch(a) = <<>> /\ ~a.blocks /\ a.category # "virtual"}

RefExist(q) ==
    Flatten([k \in 1..Len(AttrNames) |->
        IF RefMissing(q, AttrNames[k]) = {} THEN <<>>
        ELSE << NonExistantDeps(q.cpv, AttrNames[k],
                                RefMissing(q, AttrNames[k])) >>])

RefSolve(q) ==
    Flatten([t \in 1..Len(Tasks(q)) |->
        LET task == Tasks(q)[t]
            unsat == UnsatAtoms(task.profile, task.csolutions)
        IN  IF unsat = {} THEN <<>>
            ELSE << [kind |-> "NonsolvableDeps", pkg |-> q.cpv,
                     attr |-> task.attr, keyword |-> Profiles[task.profile].key,
                     profile |-> Profiles[task.profile].name,
                     potentials |-> {Str(a) : a \in unsat}] >>])

RefVcs(q) ==
    IF Range(q.eclasses) \cap {"subversion", "git", "cvs", "darcs"} = {}
    THEN {}
    ELSE { VisibleVcsPkg(q.cpv, Profiles[p].key, Profiles[p].name) :
             p \in {r \in ProfileIds :
                       /\ Profiles[r].key.marker \notin {"~", "-"}
                       /\ q.cpv \in Profiles[r].visible} }

(***************************************************************************)
(* C19: cache transparency.  Whatever packages were fed before and         *)
(* whatever the caches hold, the records a completed feed has emitted for  *)
(* a package are those of the cache-free reference for that package alone: *)
(* the same NonExistantDeps records, the same NonsolvableDeps records, and *)
(* each VisibleVcsPkg record of the reference once.                        *)
(***************************************************************************)
C19_CacheTransparency ==
    (pc = "idle" /\ fed > 0) =>
        /\ OfKind("NonExistantDeps") = RefExist(pkg)
        /\ OfKind("NonsolvableDeps") = RefSolve(pkg)
        /\ Range(OfKind("VisibleVcsPkg")) = RefVcs(pkg)
        /\ Len(OfKind("VisibleVcsPkg")) = Cardinality(RefVcs(pkg))

\* the second package of a scan, judged from warm caches (its unmatched
\* atom was searched once and met more than once, its matched atom stands
\* in a profile's cache), with records of all three kinds
C19_Witness ==
    /\ pc = "idle" /\ fed = 2
    /\ pkg.depends = DepD /\ pkg.rdepends = DepD
    /\ searches[Str(none)] = 1
    /\ \E p \in ProfileIds : Str(qux) \in cache[p]
    /\ \A k \in {"VisibleVcsPkg", "NonExistantDeps", "NonsolvableDeps"} :
          OfKind(k) # <<>>

\* the str() of the atoms in ascending string order
SigOrder == << Str(blk), Str(none), Str(qux), Str(vx), Str(vy) >>
SortRank(h) == CHOOSE i \in 1..Len(SigOrder) : SigOrder[i] = h

\* the NonsolvableDeps records of the feed as emitted, tuples kept
Nonsolvables == SelectSeq(reports, LAMBDA r : r.kind = "NonsolvableDeps")

\* the atom sets the cache-free evaluation gives for the tasks whose report
\* step has run, one per record due
FailingSets ==
    Flatten([t \in 1..DoneTasks |->
        IF UnsatAtoms(tasks[t].profile, tasks[t].csolutions) = {} THEN <<>>
        ELSE << {Str(a) : a \in UnsatAtoms(tasks[t].profile,
                                           tasks[t].csolutions)} >>])

(***************************************************************************)
(* C20 as stated: the atom sequence of every NonsolvableDeps record lists  *)
(* each failing atom exactly once and in sorted order.  (Violated: the     *)
(* sequence is list(failures), in the iteration order of a set.)           *)
(***************************************************************************)
C20_SortedOnce ==
    /\ Len(Nonsolvables) = Len(FailingSets)
    /\ \A i \in 1..Len(Nonsolvables) :
          LET seq == Nonsolvables[i].potentials IN
          /\ Range(seq) = FailingSets[i]
          /\ \A j, k \in 1..Len(seq) :
                j < k => SortRank(seq[j]) < SortRank(seq[k])

(***************************************************************************)
(* C20, amended: the atom sequence of every NonsolvableDeps record lists   *)
(* each failing atom exactly once, in the order in which the failure set   *)
(* is iterated, which need not be sorted.                                  *)
(***************************************************************************)
C20_EachFailingAtomOnce ==
    /\ Len(Nonsolvables) = Len(FailingSets)
    /\ \A i \in 1..Len(Nonsolvables) :
          LET seq == Nonsolvables[i].potentials IN
          /\ Range(seq) = FailingSets[i]
          /\ Len(seq) = Cardinality(FailingSets[i])

\* two atoms fail under p1 and the record names them in descending order
C20_Witness ==
    /\ pc = "idle" /\ fed > 0
    /\ \E i \in 1..Len(Nonsolvables) :
          Nonsolvables[i].potentials = << Str(qux), Str(none) >>

====
